---- MODULE Spec2Model ----
(***************************************************************************)
(* Model of src/twisty/anim.ts: the playback Model (cursor, direction,     *)
(* breakpoint granularity), its FrameScheduler and the notifications it    *)
(* hands to its Dispatcher, driven by the host's requestAnimationFrame     *)
(* queue and performance.now().                                            *)
(*                                                                         *)
(* Durations are held as integer counts of half units, so that the tempo   *)
(* of 1.5 per unit of wall-clock time is the exact integer step 3. Every   *)
(* value the model reaches is a small multiple of 0.5, on which the        *)
(* source's double arithmetic is exact.                                    *)
(***************************************************************************)
EXTENDS Integers, Sequences, FiniteSets, TLC

\* ---------------------------------------------------------------- bounds
\* Wall-clock time stops advancing at MaxTime.
MaxTime == 3
\* Largest wall-clock interval between two successive events.
MaxStep == 2
\* Largest number of host frame callbacks outstanding at once.
MaxPending == 2
\* A frame's timestamp may be this much older than performance.now().
MaxLag == 1

\* ------------------------------------------------- TimeLine (collaborator)
Forwards == 1
Paused == 0
Backwards == -1
Direction == {Forwards, Paused, Backwards}

Move == "Move"
EntireMoveSequence == "EntireMoveSequence"
BreakPointType == {Move, EntireMoveSequence}

\* The Move breakpoints of the timeline, ascending, in half units.
breakPointList == <<0, 3, 5>>

firstBreakPoint == breakPointList[1]

lastBreakPoint == breakPointList[Len(breakPointList)]

\* The next breakpoint from duration in the direction of travel: the nearest
\* Move breakpoint strictly ahead, or the end of the timeline on that side.
breakPoint(direction, breakPointType, duration) ==
    IF direction = Backwards
    THEN LET l == {i \in 1..Len(breakPointList) : breakPointList[i] < duration}
         IN IF l = {} \/ breakPointType = EntireMoveSequence
            THEN firstBreakPoint
            ELSE breakPointList[CHOOSE i \in l : \A j \in l : j <= i]
    ELSE LET l == {i \in 1..Len(breakPointList) : breakPointList[i] > duration}
         IN IF l = {} \/ breakPointType = EntireMoveSequence
            THEN lastBreakPoint
            ELSE breakPointList[CHOOSE i \in l : \A j \in l : i <= j]

\* ------------------------------------------------------------------ state
VARIABLES
    cursor,          \* Model.cursor (half units)
    lastCursorTime,  \* Model.lastCursorTime
    direction,       \* Model.direction
    breakPointType,  \* Model.breakPointType
    animating,       \* FrameScheduler.animating
    pending,         \* callbacks requested from requestAnimationFrame, not yet run
    clock,           \* performance.now()
    frameTime,       \* the timestamp the host gave the latest frame callback
    dirNotes,        \* Dispatcher.animDirectionChanged calls of the latest event
    cursorNotes,     \* Dispatcher.animCursorChanged calls of the latest event
    recon,           \* trace of the latest event's updateCursor run, if any
    op,              \* the latest event and the one before it: name, timestamp, pre-state
    cmd,             \* the latest command: name, time, pre-state, the cursor it left
    notesSinceCmd,   \* animCursorChanged calls since the latest command (saturating)
    cursorObservers,     \* Dispatcher.cursorObservers, in insertion order
    directionObservers,  \* Dispatcher.directionObservers, in insertion order
    calls,           \* the observer methods the latest event invoked, in order
    reg,             \* the latest registration: its set, its observer, whether it threw
    asked,           \* the observers each register method has been called with
    lastNote         \* the value of the latest animCursorChanged call, if any

vars == <<cursor, lastCursorTime, direction, breakPointType, animating, pending,
          clock, frameTime, dirNotes, cursorNotes, recon, op, cmd, notesSinceCmd,
          cursorObservers, directionObservers, calls, reg, asked, lastNote>>

tempo == 3

NoRecon == [ran |-> FALSE]

\* The program state as one value, threaded through the method calls of an event.
Self ==
    [cursor |-> cursor, lastCursorTime |-> lastCursorTime, direction |-> direction,
     breakPointType |-> breakPointType, animating |-> animating, pending |-> pending,
     dirNotes |-> <<>>, cursorNotes |-> <<>>, recon |-> NoRecon,
     cursorObservers |-> cursorObservers, directionObservers |-> directionObservers,
     calls |-> <<>>, thrown |-> FALSE]

\* ---------------------------------------------------------- FrameScheduler
requestAnimationFrame(m) == [m EXCEPT !.pending = @ + 1]

start(m) ==
    IF ~m.animating
    THEN requestAnimationFrame([m EXCEPT !.animating = TRUE])
    ELSE m

\* stop leaving the flag set (line 226 dropped).
stop_keepsAnimating(m) == m

stop(m) == [m EXCEPT !.animating = FALSE]

singleFrame(m) == stop(start(m))

\* ------------------------------------------------------------- Dispatcher
\* The identities of the observers that may be registered.
Observers == {"o1", "o2"}

\* Set.has and Set.add on a Set held in insertion order.
has(observers, observer) == \E i \in 1..Len(observers) : observers[i] = observer

add(observers, observer) ==
    IF has(observers, observer) THEN observers ELSE Append(observers, observer)

\* registerCursorObserver adding without the test of lines 24-26.
registerCursorObserver_noCheck(m, observer) ==
    [m EXCEPT !.cursorObservers = add(@, observer)]

registerCursorObserver(m, observer) ==
    IF has(m.cursorObservers, observer)
    THEN [m EXCEPT !.thrown = TRUE]
    ELSE [m EXCEPT !.cursorObservers = add(@, observer)]

registerDirectionObserver(m, observer) ==
    IF has(m.directionObservers, observer)
    THEN [m EXCEPT !.thrown = TRUE]
    ELSE [m EXCEPT !.directionObservers = add(@, observer)]

\* Lines 39-41 and 46-48: invoke method with value on every observer, in order.
forEach(observers, method, value) ==
    [i \in 1..Len(observers) |->
        [observer |-> observers[i], method |-> method, value |-> value]]

animCursorChanged(m, c) ==
    [m EXCEPT !.cursorNotes = Append(@, c),
              !.calls = @ \o forEach(m.cursorObservers, "animCursorChanged", c)]

animDirectionChanged(m, d, held) ==
    [m EXCEPT !.dirNotes = Append(@, [from |-> held, to |-> d]),
              !.calls = @ \o forEach(m.directionObservers, "animDirectionChanged", d)]

\* ------------------------------------------------------------------ Model
timeScaling(m) == m.direction * tempo

setDirection(m, d) ==
    animDirectionChanged([m EXCEPT !.direction = d], d, m.direction)

\* integrate without the workaround of lines 92-94 for a negative elapsed time.
integrate_negativeElapsed(m, timeStamp) ==
    [m EXCEPT !.cursor = @ + (timeStamp - m.lastCursorTime) * timeScaling(m),
              !.lastCursorTime = timeStamp]

\* Lines 88-96: integrate the time since lastCursorTime into the cursor.
integrate(m, timeStamp) ==
    LET raw == timeStamp - m.lastCursorTime
        elapsed == IF raw < 0 THEN 0 ELSE raw
    IN [m EXCEPT !.cursor = @ + elapsed * timeScaling(m),
                 !.lastCursorTime = timeStamp]

\* isPastBreakPoint taking a landing exactly on the breakpoint for an overshoot.
isPastBreakPoint_inclusive(d, c, bp) ==
    IF d = Forwards THEN c >= bp ELSE c <= bp

\* Lines 102-105: is cursor c strictly past breakpoint bp when moving in direction d?
isPastBreakPoint(d, c, bp) ==
    LET isForwards == (d = Forwards)
    IN IF isForwards THEN c > bp ELSE c < bp

\* stopAtBreakPoint without the scheduler.stop() of line 109.
stopAtBreakPoint_keepsScheduling(m, bp) ==
    setDirection([m EXCEPT !.cursor = bp], Paused)

\* stopAtBreakPoint without the clamp of line 107.
stopAtBreakPoint_noClamp(m, bp) ==
    stop(setDirection(m, Paused))

\* Lines 107-109: stop at the breakpoint.
stopAtBreakPoint(m, bp) ==
    stop(setDirection([m EXCEPT !.cursor = bp], Paused))

\* Lines 88-110: updateCursor when the direction is not Paused.
advance(m, timeStamp) ==
    LET previousCursor == m.cursor
        moved == integrate(m, timeStamp)
        bp == breakPoint(m.direction, m.breakPointType, previousCursor)
    IN IF isPastBreakPoint(m.direction, moved.cursor, bp)
       THEN stopAtBreakPoint(moved, bp)
       ELSE moved

\* What a run of updateCursor on m with timeStamp did: its inputs and its result r.
Observe(m, timeStamp, r) ==
    [r EXCEPT !.recon = [ran |-> TRUE, dir |-> m.direction, type |-> m.breakPointType,
                         p |-> m.cursor, last |-> m.lastCursorTime, ts |-> timeStamp,
                         cursor |-> r.cursor, direction |-> r.direction,
                         animating |-> r.animating, notes |-> r.dirNotes]]

\* updateCursor leaving lastCursorTime alone while Paused (line 84 dropped).
updateCursor_pausedKeepsTime(m, timeStamp) ==
    Observe(m, timeStamp,
            IF m.direction = Paused THEN m ELSE advance(m, timeStamp))

updateCursor(m, timeStamp) ==
    Observe(m, timeStamp,
            IF m.direction = Paused
            THEN [m EXCEPT !.lastCursorTime = timeStamp]
            ELSE advance(m, timeStamp))

\* frame notifying the cursor before reconciling it (lines 121 and 122 swapped).
frame_notifyFirst(m, timeStamp) ==
    updateCursor(animCursorChanged(m, m.cursor), timeStamp)

frame(m, timeStamp) ==
    LET u == updateCursor(m, timeStamp)
    IN animCursorChanged(u, u.cursor)

setBreakPointType(m, t) == [m EXCEPT !.breakPointType = t]

isPaused(m) == m.direction = Paused

\* animateDirection without the reconciliation of line 142.
animateDirection_noReconcile(m, d, now) ==
    IF m.direction = d
    THEN m
    ELSE LET u == setDirection(m, d)
         IN IF d = Paused THEN stop(u) ELSE start(u)

\* animateDirection setting the new direction before reconciling (lines 142 and
\* 145 swapped).
animateDirection_directionFirst(m, d, now) ==
    IF m.direction = d
    THEN m
    ELSE LET u == updateCursor(setDirection(m, d), now)
         IN IF d = Paused THEN stop(u) ELSE start(u)

animateDirection(m, d, now) ==
    IF m.direction = d
    THEN m
    ELSE LET u == setDirection(updateCursor(m, now), d)
         IN IF d = Paused THEN stop(u) ELSE start(u)

pause(m, now) == animateDirection(m, Paused, now)

\* skipAndPauseTo writing the cursor before pausing (lines 154 and 155 swapped).
skipAndPauseTo_cursorFirst(m, duration, now) ==
    singleFrame(pause([m EXCEPT !.cursor = duration], now))

skipAndPauseTo(m, duration, now) ==
    singleFrame([pause(m, now) EXCEPT !.cursor = duration])

playForward(m, now) ==
    animateDirection(setBreakPointType(m, EntireMoveSequence), Forwards, now)

playBackward(m, now) ==
    animateDirection(setBreakPointType(m, EntireMoveSequence), Backwards, now)

skipToStart(m, now) == skipAndPauseTo(m, firstBreakPoint, now)

skipToEnd(m, now) == skipAndPauseTo(m, lastBreakPoint, now)

stepForward(m, now) ==
    animateDirection(setBreakPointType(m, Move), Forwards, now)

stepBackward(m, now) ==
    animateDirection(setBreakPointType(m, Move), Backwards, now)

togglePausePlayForward(m, now) ==
    IF isPaused(m) THEN playForward(m, now) ELSE pause(m, now)

\* animFrame requesting the next callback without testing the flag (line 208 dropped).
animFrame_alwaysRequests(m, timeStamp) ==
    requestAnimationFrame(frame([m EXCEPT !.pending = @ - 1], timeStamp))

\* FrameScheduler.animFrame, run by the host for one outstanding callback.
animFrame(m, timeStamp) ==
    LET f == frame([m EXCEPT !.pending = @ - 1], timeStamp)
    IN IF f.animating THEN requestAnimationFrame(f) ELSE f

\* ----------------------------------------------------------------- events
Saturate(n) == IF n > 2 THEN 2 ELSE n

\* What the properties need of the state an event started from.
PreState == [direction |-> direction, cursor |-> cursor, pending |-> pending,
             animating |-> animating]

\* What the properties need of the event before the latest one.
Prev == [name |-> op.name, ts |-> op.ts, pre |-> op.pre, notes |-> Len(dirNotes)]

\* Store the program state r that an event produced.
Commit(r) ==
    /\ cursor' = r.cursor
    /\ lastCursorTime' = r.lastCursorTime
    /\ direction' = r.direction
    /\ breakPointType' = r.breakPointType
    /\ animating' = r.animating
    /\ pending' = r.pending
    /\ dirNotes' = r.dirNotes
    /\ cursorNotes' = r.cursorNotes
    /\ recon' = r.recon
    /\ cursorObservers' = r.cursorObservers
    /\ directionObservers' = r.directionObservers
    /\ calls' = r.calls
    /\ lastNote' = IF r.cursorNotes = <<>> THEN lastNote
                   ELSE <<r.cursorNotes[Len(r.cursorNotes)]>>

\* A command called when dt of wall-clock time has passed since the latest event.
Command(name, r, dt) ==
    /\ r.pending <= MaxPending
    /\ clock' = clock + dt
    /\ Commit(r)
    /\ op' = [name |-> name, ts |-> clock + dt, pre |-> PreState, prev |-> Prev]
    /\ cmd' = [name |-> name, ts |-> clock + dt, pre |-> PreState, cursor |-> r.cursor]
    /\ notesSinceCmd' = 0
    /\ UNCHANGED <<frameTime, reg, asked>>

NoRegistration == [set |-> "none", observer |-> "none", thrown |-> FALSE]

Init ==
    /\ cursor = 0
    /\ lastCursorTime = 0
    /\ direction = Paused
    /\ breakPointType = EntireMoveSequence
    /\ animating = FALSE
    /\ pending = 0
    /\ clock = 0
    /\ frameTime = 0
    /\ dirNotes = <<>>
    /\ cursorNotes = <<>>
    /\ recon = NoRecon
    /\ op = [name |-> "init", ts |-> 0, pre |-> PreState,
             prev |-> [name |-> "init", ts |-> 0, pre |-> PreState, notes |-> 0]]
    /\ cmd = [name |-> "init", ts |-> 0, pre |-> PreState, cursor |-> 0]
    /\ notesSinceCmd = 0
    /\ cursorObservers = <<>>
    /\ directionObservers = <<>>
    /\ calls = <<>>
    /\ reg = NoRegistration
    /\ asked = [cursor |-> {}, direction |-> {}]
    /\ lastNote = <<>>

PlayForward ==
    \E dt \in 0..MaxStep :
        /\ clock + dt <= MaxTime
        /\ Command("playForward", playForward(Self, clock + dt), dt)

PlayBackward ==
    \E dt \in 0..MaxStep :
        /\ clock + dt <= MaxTime
        /\ Command("playBackward", playBackward(Self, clock + dt), dt)

Pause ==
    \E dt \in 0..MaxStep :
        /\ clock + dt <= MaxTime
        /\ Command("pause", pause(Self, clock + dt), dt)

StepForward ==
    \E dt \in 0..MaxStep :
        /\ clock + dt <= MaxTime
        /\ Command("stepForward", stepForward(Self, clock + dt), dt)

StepBackward ==
    \E dt \in 0..MaxStep :
        /\ clock + dt <= MaxTime
        /\ Command("stepBackward", stepBackward(Self, clock + dt), dt)

TogglePausePlayForward ==
    \E dt \in 0..MaxStep :
        /\ clock + dt <= MaxTime
        /\ Command("togglePausePlayForward", togglePausePlayForward(Self, clock + dt), dt)

SkipToStart ==
    \E dt \in 0..MaxStep :
        /\ clock + dt <= MaxTime
        /\ Command("skipToStart", skipToStart(Self, clock + dt), dt)

SkipToEnd ==
    \E dt \in 0..MaxStep :
        /\ clock + dt <= MaxTime
        /\ Command("skipToEnd", skipToEnd(Self, clock + dt), dt)

\* The host runs one outstanding frame callback, dt after the latest event. Its
\* timestamp never decreases from frame to frame and may lag performance.now() by
\* up to MaxLag.
HostFrame(dt, timeStamp) ==
    /\ pending > 0
    /\ timeStamp >= frameTime
    /\ timeStamp >= clock + dt - MaxLag
    /\ clock' = clock + dt
    /\ frameTime' = timeStamp
    /\ Commit(animFrame(Self, timeStamp))
    /\ op' = [name |-> "frame", ts |-> timeStamp, pre |-> PreState, prev |-> Prev]
    /\ notesSinceCmd' = Saturate(notesSinceCmd + 1)
    /\ UNCHANGED <<cmd, reg, asked>>

AnimFrame ==
    \E dt \in 0..MaxStep :
      \E timeStamp \in 0..(clock + dt) :
        /\ clock + dt <= MaxTime
        /\ HostFrame(dt, timeStamp)

Next ==
    \/ PlayForward
    \/ PlayBackward
    \/ Pause
    \/ StepForward
    \/ StepBackward
    \/ TogglePausePlayForward
    \/ SkipToStart
    \/ SkipToEnd
    \/ AnimFrame

Spec == Init /\ [][Next]_vars

\* ------------------------------------------- after the last command
\* Frame callbacks go on after MaxTime, when no command is called any more, so that
\* a timestamp is late against nothing: each is the time the callback runs at. A
\* Model left to its callbacks stops and runs out of them well before Horizon: a
\* motion lasts less than lastBreakPoint, a timestamp taken before MaxTime lags by
\* MaxLag at most, and up to MaxPending callbacks then each take up to MaxStep.
Horizon == MaxTime + MaxLag + lastBreakPoint + (MaxPending + 1) * MaxStep

LateFrame ==
    \E dt \in 0..MaxStep :
        /\ clock + dt > MaxTime
        /\ clock + dt <= Horizon
        /\ HostFrame(dt, clock + dt)

LiveNext ==
    \/ Next
    \/ LateFrame

\* With a callback outstanding, the host runs a frame whose timestamp is later than
\* that of the frame before it. Only HostFrame changes frameTime.
LaterFrame ==
    /\ pending > 0
    /\ frameTime' \in (frameTime + 1)..Horizon

\* The host runs every callback requested of it, and its timestamps keep increasing.
LiveSpec ==
    /\ Init
    /\ [][LiveNext]_vars
    /\ WF_frameTime(LaterFrame)

\* ------------------------------------------------- the Dispatcher's clients
\* A registration or a dispatch, called on the public dispatcher of a Model that
\* is otherwise left as constructed.
DispatcherEvent(name, r) ==
    /\ Commit(r)
    /\ op' = [name |-> name, ts |-> clock, pre |-> PreState, prev |-> Prev]
    /\ UNCHANGED <<clock, frameTime, cmd, notesSinceCmd>>

RegisterCursorObserver ==
    \E observer \in Observers :
        LET r == registerCursorObserver(Self, observer)
        IN /\ DispatcherEvent("registerCursorObserver", r)
           /\ reg' = [set |-> "cursor", observer |-> observer, thrown |-> r.thrown]
           /\ asked' = [asked EXCEPT !.cursor = @ \cup {observer}]

RegisterDirectionObserver ==
    \E observer \in Observers :
        LET r == registerDirectionObserver(Self, observer)
        IN /\ DispatcherEvent("registerDirectionObserver", r)
           /\ reg' = [set |-> "direction", observer |-> observer, thrown |-> r.thrown]
           /\ asked' = [asked EXCEPT !.direction = @ \cup {observer}]

AnimCursorChanged ==
    \E c \in {firstBreakPoint, lastBreakPoint} :
        /\ DispatcherEvent("animCursorChanged", animCursorChanged(Self, c))
        /\ UNCHANGED <<reg, asked>>

AnimDirectionChanged ==
    \E d \in Direction :
        /\ DispatcherEvent("animDirectionChanged", animDirectionChanged(Self, d, direction))
        /\ UNCHANGED <<reg, asked>>

DispatcherNext ==
    \/ RegisterCursorObserver
    \/ RegisterDirectionObserver
    \/ AnimCursorChanged
    \/ AnimDirectionChanged

DispatcherSpec == Init /\ [][DispatcherNext]_vars

TypeOK ==
    /\ cursor \in Int
    /\ lastCursorTime \in 0..MaxTime
    /\ direction \in Direction
    /\ breakPointType \in BreakPointType
    /\ animating \in BOOLEAN
    /\ pending \in 0..MaxPending
    /\ clock \in 0..MaxTime
    /\ frameTime \in 0..MaxTime

\* ------------------------------------------------------------- properties
MotionCommands == {"playForward", "playBackward", "pause", "stepForward", "stepBackward"}

SkipCommands == {"skipToStart", "skipToEnd"}

\* The direction a motion command requests.
Requested(name) ==
    CASE name \in {"playForward", "stepForward"} -> Forwards
      [] name \in {"playBackward", "stepBackward"} -> Backwards
      [] OTHER -> Paused

SkipTarget(name) == IF name = "skipToStart" THEN firstBreakPoint ELSE lastBreakPoint

\* The latest command was a skip called while playing with a frame callback outstanding.
SkipFromLoop ==
    /\ cmd.name \in SkipCommands
    /\ cmd.pre.direction # Paused
    /\ cmd.pre.pending >= 1

\* C1: after skipToStart() / skipToEnd() called while playing with the frame loop
\* running, at most one cursor-changed notification is delivered, it carries the
\* skip target, and once it is delivered no frame callback is outstanding and the
\* scheduler is not scheduling.
C1_SkipNotifiesOnce ==
    SkipFromLoop =>
        /\ notesSinceCmd <= 1
        /\ notesSinceCmd = 1 =>
              /\ cursorNotes = <<SkipTarget(cmd.name)>>
              /\ pending = 0
              /\ ~animating

\* The latest two events are the same motion command, called twice in succession,
\* the first call requesting a direction other than the one then held.
CalledTwice ==
    /\ op.name \in MotionCommands
    /\ op.prev.name = op.name
    /\ Requested(op.name) # op.prev.pre.direction

\* C2: a play/pause/step command called twice in succession, the first call
\* requesting a new direction, delivers exactly one direction-changed notification
\* over the two calls, and none in the second.
C2_TwiceNotifiesOnce ==
    CalledTwice =>
        /\ op.prev.notes + Len(dirNotes) = 1
        /\ Len(dirNotes) = 0

\* C3: every direction-changed notification carries a direction different from the
\* one the model held immediately before it, and an event that changes the direction
\* field delivers a notification carrying the new value.
C3_NotifiesOnlyChanges ==
    /\ \A i \in 1..Len(dirNotes) : dirNotes[i].to # dirNotes[i].from
    /\ direction # op.pre.direction =>
          /\ Len(dirNotes) >= 1
          /\ dirNotes[Len(dirNotes)].to = direction

\* The latest two events are playForward() called while Paused and then pause(),
\* with no frame callback between them.
PlayThenPause ==
    /\ op.name = "pause"
    /\ op.prev.name = "playForward"
    /\ op.prev.pre.direction = Paused

\* C4 as claimed: playForward() from Paused then pause(), with no frame between,
\* leaves the cursor at its value before playForward(), whatever the two times.
C4_RoundTripUnchanged ==
    PlayThenPause => cursor = op.prev.pre.cursor

\* The cursor c moved in direction d for the time e, stopped at the breakpoint bp
\* if that is overshot.
Clamped(d, c, e, bp) ==
    LET x == c + e * d * tempo
    IN IF (d = Forwards /\ x > bp) \/ (d = Backwards /\ x < bp) THEN bp ELSE x

\* C4 as amended: playForward() at time t1 from Paused then pause() at time t2,
\* with no frame between, leaves the cursor at its value c before playForward()
\* advanced by tempo * (t2 - t1), stopped at breakPoint(Forwards,
\* EntireMoveSequence, c) if that is overshot.
C4_RoundTripIntegrates ==
    PlayThenPause =>
        cursor = Clamped(Forwards, op.prev.pre.cursor, op.ts - op.prev.ts,
                         breakPoint(Forwards, EntireMoveSequence, op.prev.pre.cursor))

C4_Witness ==
    /\ PlayThenPause
    /\ op.ts > op.prev.ts
    /\ cursor > op.prev.pre.cursor
    /\ cursor < lastBreakPoint

\* The latest event ran updateCursor with a direction other than Paused.
Reconciled == recon.ran /\ recon.dir # Paused

ReconElapsed == IF recon.ts - recon.last < 0 THEN 0 ELSE recon.ts - recon.last

ReconBreakPoint == breakPoint(recon.dir, recon.type, recon.p)

ReconIntegrated == recon.p + ReconElapsed * recon.dir * tempo

ReconOvershoot ==
    \/ recon.dir = Forwards /\ ReconIntegrated > ReconBreakPoint
    \/ recon.dir = Backwards /\ ReconIntegrated < ReconBreakPoint

\* C5: a reconciliation run while moving, from cursor p with breakpoint b: if the
\* integrated cursor is strictly past b it ends with cursor b, direction Paused, the
\* scheduler flag false and Paused notified; otherwise with cursor
\* p + elapsed * direction * tempo and the direction unchanged. The cursor never
\* ends beyond b, and a frame callback leaves the model as its reconciliation did.
C5_BreakPointClamp ==
    Reconciled =>
        /\ IF ReconOvershoot
           THEN /\ recon.cursor = ReconBreakPoint
                /\ recon.direction = Paused
                /\ ~recon.animating
                /\ recon.notes = <<[from |-> recon.dir, to |-> Paused]>>
           ELSE /\ recon.cursor = ReconIntegrated
                /\ recon.direction = recon.dir
                /\ recon.notes = <<>>
        /\ (recon.cursor - ReconBreakPoint) * recon.dir <= 0
        /\ op.name = "frame" =>
              /\ cursor = recon.cursor
              /\ direction = recon.direction
              /\ animating = recon.animating
              /\ dirNotes = recon.notes

C5_Witness ==
    /\ Reconciled
    /\ op.name = "frame"
    /\ recon.dir = Forwards
    /\ recon.type = Move
    /\ ReconOvershoot
    /\ cursor = ReconBreakPoint
    /\ cursor < lastBreakPoint

\* C6: between events, direction is Paused exactly when the scheduler flag is false.
C6_PausedIffNotAnimating ==
    (direction = Paused) <=> ~animating

C6_Witness ==
    /\ op.name = "frame"
    /\ Reconciled
    /\ ReconOvershoot
    /\ direction = Paused
    /\ ~animating

\* C7: the cursor lies in [firstBreakPoint(), lastBreakPoint()] after every event.
C7_CursorInBounds ==
    /\ firstBreakPoint <= cursor
    /\ cursor <= lastBreakPoint

C7_Witness ==
    /\ Reconciled
    /\ ReconOvershoot
    /\ ReconIntegrated > lastBreakPoint
    /\ cursor = lastBreakPoint

\* C8: a frame callback run while Paused leaves the cursor as it was and sets
\* lastCursorTime to its timestamp; a play or step command called while Paused then
\* starts from that cursor, at the time of the call.
C8_NoDriftWhilePaused ==
    /\ (op.name = "frame" /\ op.pre.direction = Paused) =>
          /\ cursor = op.pre.cursor
          /\ direction = Paused
          /\ lastCursorTime = op.ts
    /\ (op.name \in MotionCommands \ {"pause"} /\ op.pre.direction = Paused) =>
          /\ cursor = op.pre.cursor
          /\ lastCursorTime = op.ts

C8_Witness ==
    /\ cmd.name = "pause"
    /\ cmd.pre.direction = Forwards
    /\ op.name = "frame"
    /\ op.pre.direction = Paused
    /\ recon.ts > recon.last
    /\ cursor > firstBreakPoint
    /\ cursor < lastBreakPoint

\* C9: a reconciliation whose timestamp is smaller than lastCursorTime integrates no
\* time: the cursor is left where it was, unless it was already strictly past the
\* queried breakpoint, and then it is put on that breakpoint.
C9_StaleTimestamp ==
    (Reconciled /\ recon.ts < recon.last) =>
        IF isPastBreakPoint(recon.dir, recon.p, ReconBreakPoint)
        THEN recon.cursor = ReconBreakPoint
        ELSE recon.cursor = recon.p /\ recon.direction = recon.dir

C9_Witness ==
    /\ Reconciled
    /\ recon.ts < recon.last
    /\ op.name = "frame"
    /\ cursor = recon.p
    /\ direction = Forwards

\* C10: from the return of skipToStart() / skipToEnd() until the next command,
\* through every frame callback, direction is Paused and the cursor is
\* firstBreakPoint() / lastBreakPoint().
C10_SkipLands ==
    cmd.name \in SkipCommands =>
        /\ direction = Paused
        /\ cursor = SkipTarget(cmd.name)

C10_Witness ==
    /\ cmd.name = "skipToStart"
    /\ cmd.pre.direction = Forwards
    /\ cmd.pre.cursor > firstBreakPoint
    /\ op.name = "frame"
    /\ cursor = firstBreakPoint

\* C11: stop() (here through pause()) removes no outstanding frame callback; a
\* callback that fires with the scheduler flag false runs the per-frame handler once
\* and requests no further callback.
C11_StopLeavesCallback ==
    /\ op.name = "pause" =>
          /\ ~animating
          /\ pending = op.pre.pending
    /\ (op.name = "frame" /\ ~op.pre.animating) =>
          /\ cursorNotes = <<cursor>>
          /\ pending = op.pre.pending - 1
          /\ ~animating

C11_Witness ==
    /\ op.name = "frame"
    /\ op.prev.name = "pause"
    /\ op.prev.pre.direction = Forwards
    /\ op.pre.pending = 1
    /\ ~op.pre.animating
    /\ pending = 0

\* The calls of method that the latest event made on observer.
CallsOn(observer, method) ==
    {i \in 1..Len(calls) : calls[i].observer = observer /\ calls[i].method = method}

\* C12: a registration throws exactly when its observer had already been
\* registered in the same set, and then leaves both sets as they were; a
\* registration in one set never changes the other; so every dispatch invokes each
\* observer registered for its event once, with the dispatched value, and no other.
C12_DuplicateRegistration ==
    [][/\ op'.name = "registerCursorObserver" =>
            /\ directionObservers' = directionObservers
            /\ reg'.thrown = (reg'.observer \in asked.cursor)
            /\ reg'.thrown => cursorObservers' = cursorObservers
       /\ op'.name = "registerDirectionObserver" =>
            /\ cursorObservers' = cursorObservers
            /\ reg'.thrown = (reg'.observer \in asked.direction)
            /\ reg'.thrown => directionObservers' = directionObservers
       /\ op'.name = "animCursorChanged" =>
            /\ \A o \in Observers :
                 Cardinality(CallsOn(o, "animCursorChanged")') =
                     IF o \in asked.cursor THEN 1 ELSE 0
            /\ \A i \in 1..Len(calls') :
                 calls'[i].method = "animCursorChanged" /\ calls'[i].value = cursorNotes'[1]
       /\ op'.name = "animDirectionChanged" =>
            /\ \A o \in Observers :
                 Cardinality(CallsOn(o, "animDirectionChanged")') =
                     IF o \in asked.direction THEN 1 ELSE 0
            /\ \A i \in 1..Len(calls') :
                 calls'[i].method = "animDirectionChanged" /\ calls'[i].value = dirNotes'[1].to
      ]_vars

C12_Witness ==
    /\ op.name = "animCursorChanged"
    /\ reg.set = "cursor"
    /\ reg.thrown
    /\ Len(cursorObservers) = 2
    /\ Len(directionObservers) = 1
    /\ Len(calls) = 2

\* The step leaves the Model and its scheduler as r.
SameEffect(r) ==
    /\ cursor' = r.cursor
    /\ lastCursorTime' = r.lastCursorTime
    /\ direction' = r.direction
    /\ breakPointType' = r.breakPointType
    /\ animating' = r.animating
    /\ pending' = r.pending
    /\ dirNotes' = r.dirNotes

\* C13: when a motion command returns, playForward / playBackward leave direction
\* Forwards / Backwards with granularity EntireMoveSequence, stepForward /
\* stepBackward leave direction Forwards / Backwards with granularity Move, pause
\* leaves direction Paused and the granularity as it was, and
\* togglePausePlayForward has done what playForward does if the direction was
\* Paused and what pause does otherwise.
C13_CommandEffect ==
    [][/\ op'.name = "playForward" =>
            direction' = Forwards /\ breakPointType' = EntireMoveSequence
       /\ op'.name = "playBackward" =>
            direction' = Backwards /\ breakPointType' = EntireMoveSequence
       /\ op'.name = "stepForward" =>
            direction' = Forwards /\ breakPointType' = Move
       /\ op'.name = "stepBackward" =>
            direction' = Backwards /\ breakPointType' = Move
       /\ op'.name = "pause" =>
            direction' = Paused /\ breakPointType' = breakPointType
       /\ op'.name = "togglePausePlayForward" =>
            IF direction = Paused
            THEN /\ direction' = Forwards
                 /\ breakPointType' = EntireMoveSequence
                 /\ SameEffect(playForward(Self, op'.ts))
            ELSE /\ direction' = Paused
                 /\ breakPointType' = breakPointType
                 /\ SameEffect(pause(Self, op'.ts))
      ]_vars

C13_Witness ==
    /\ op.name = "stepBackward"
    /\ op.pre.direction = Forwards
    /\ Reconciled
    /\ ReconOvershoot
    /\ direction = Backwards
    /\ breakPointType = Move

\* C14: at most one host frame callback is outstanding at any time.
C14_AtMostOnePending ==
    pending <= 1

\* The direction that command name requests when the direction held is d.
RequestedFrom(name, d) ==
    IF name = "togglePausePlayForward"
    THEN (IF d = Paused THEN Forwards ELSE Paused)
    ELSE Requested(name)

NonNegative(e) == IF e < 0 THEN 0 ELSE e

\* A command requesting a direction d other than the one held integrates the time
\* since lastCursorTime with the sign of the old direction, at performance.now(),
\* which becomes lastCursorTime; it then notifies d to the direction listeners,
\* after any notification of that reconciliation; it ends with direction d and the
\* scheduler stopped if d is Paused and started otherwise.
DirectionChangeOrder ==
    (/\ op'.name \in MotionCommands \cup {"togglePausePlayForward"}
     /\ RequestedFrom(op'.name, direction) # direction)
    => LET d == RequestedFrom(op'.name, direction)
           now == clock'
       IN /\ op'.ts = now
          /\ recon'.ran
          /\ recon'.dir = direction
          /\ recon'.ts = now
          /\ cursor' = IF direction = Paused
                       THEN cursor
                       ELSE Clamped(direction, cursor,
                                    NonNegative(now - lastCursorTime),
                                    breakPoint(direction, breakPointType', cursor))
          /\ lastCursorTime' = now
          /\ dirNotes' = Append(recon'.notes, [from |-> recon'.direction, to |-> d])
          /\ direction' = d
          /\ animating' = (d # Paused)
          /\ pending' = IF d # Paused /\ ~recon'.animating THEN pending + 1 ELSE pending

\* The latest command changed the direction to one other than Paused, and the
\* latest event is a frame callback that found the Model still moving.
MovingSinceChange ==
    /\ cmd.name \in MotionCommands \cup {"togglePausePlayForward"}
    /\ RequestedFrom(cmd.name, cmd.pre.direction) \notin {cmd.pre.direction, Paused}
    /\ op.name = "frame"
    /\ Reconciled

\* Since the command that set the direction now held, the cursor has moved in that
\* direction by no more than tempo times the time since that command.
OnlyLaterTime ==
    MovingSinceChange =>
        (cursor - cmd.cursor) * direction <= tempo * NonNegative(op.ts - cmd.ts)

\* C15 (within the command): the order of reconciliation, notification and
\* scheduler call of a direction change, as stated for DirectionChangeOrder.
C15_DirectionChangeOrder ==
    [][DirectionChangeOrder]_vars

\* C15: a direction change reconciles under the old direction at
\* performance.now(), then notifies the new direction, then stops or starts the
\* scheduler; and no time elapsed before the command is ever integrated under the
\* new direction.
C15_OldDirectionThenNew ==
    [][DirectionChangeOrder /\ OnlyLaterTime']_vars

C15_Witness ==
    /\ op.name = "playBackward"
    /\ op.pre.direction = Forwards
    /\ recon.ran
    /\ recon.ts > recon.last
    /\ ~ReconOvershoot
    /\ cursor > op.pre.cursor
    /\ direction = Backwards

C15_MovingWitness ==
    /\ MovingSinceChange
    /\ cmd.pre.direction = Forwards
    /\ op.ts > cmd.ts
    /\ direction = Backwards
    /\ cursor < cmd.cursor

\* The latest command was a play or step command called while Paused, and the latest
\* event a frame callback that found the Model still moving.
MovingSincePlay ==
    /\ cmd.name \in {"playForward", "playBackward", "stepForward", "stepBackward",
                     "togglePausePlayForward"}
    /\ cmd.pre.direction = Paused
    /\ op.name = "frame"
    /\ Reconciled

Abs(x) == IF x < 0 THEN -x ELSE x

\* C18: from a play or step command called while Paused at time t0 to a later
\* reconciliation at time t1, with no pause between, the cursor is displaced by at
\* most tempo * (t1 - t0).
C18_NoTimeCountedTwice ==
    MovingSincePlay =>
        Abs(cursor - cmd.pre.cursor) <= tempo * NonNegative(op.ts - cmd.ts)

\* C17: after stepForward() / stepBackward() called while Paused at cursor c, with
\* no further command, the cursor when the direction is Paused again is
\* breakPoint(direction, Move, c), whatever the frame timestamps.
C17_StepStopsAtNextMove ==
    (/\ cmd.name \in {"stepForward", "stepBackward"}
     /\ cmd.pre.direction = Paused
     /\ direction = Paused)
    => cursor = breakPoint(Requested(cmd.name), Move, cmd.pre.cursor)

\* C20: a play or step command that changes the granularity and the direction in
\* one call reconciles the time elapsed under the old direction against the
\* breakpoint at the granularity in force before the command.
C20_OldGranularity ==
    [][(/\ op'.name \in {"playForward", "playBackward", "stepForward", "stepBackward"}
        /\ direction \notin {Paused, Requested(op'.name)}
        /\ breakPointType' # breakPointType)
       => cursor' = Clamped(direction, cursor, NonNegative(clock' - lastCursorTime),
                            breakPoint(direction, breakPointType, cursor))
      ]_vars

\* C19: a command that changes the cursor leaves a frame callback outstanding, and
\* whenever no callback is outstanding and a cursor-changed notification has been
\* delivered, the latest one carried the Model's current cursor.
C19_ListenersNotStale ==
    [][/\ (op'.name # "frame" /\ cursor' # cursor) => pending' >= 1
       /\ (pending' = 0 /\ lastNote' # <<>>) => lastNote' = <<cursor'>>
      ]_vars

C19_Witness ==
    /\ cmd.name = "pause"
    /\ cmd.cursor # cmd.pre.cursor
    /\ op.name = "frame"
    /\ pending = 0
    /\ lastNote = <<cursor>>

\* The Model is at rest: Paused, not scheduling, no frame callback outstanding.
Settled ==
    /\ direction = Paused
    /\ ~animating
    /\ pending = 0

\* If the latest command set the Model moving, the cursor is on a breakpoint not
\* behind the cursor that command left, the end of the timeline for a play command.
StoppedAtBreakPoint ==
    LET d == RequestedFrom(cmd.name, cmd.pre.direction)
    IN (cmd.name \in MotionCommands \cup {"togglePausePlayForward"} /\ d # Paused) =>
          /\ \E i \in 1..Len(breakPointList) : cursor = breakPointList[i]
          /\ (cursor - cmd.cursor) * d >= 0
          /\ breakPointType = EntireMoveSequence =>
                cursor = IF d = Forwards THEN lastBreakPoint ELSE firstBreakPoint

\* C16: if from some point on no command is called, while every outstanding frame
\* callback fires and the frame timestamps keep increasing, then eventually and for
\* ever the direction is Paused, the scheduler flag false, no frame callback
\* outstanding and, after a play or step command, the cursor on the breakpoint
\* where the motion stopped, and the program state changes no more.
C16_EventuallySettles ==
    <>[][op'.name = "frame"]_vars =>
        /\ <>[](Settled /\ StoppedAtBreakPoint)
        /\ <>[][UNCHANGED <<cursor, lastCursorTime, direction, breakPointType,
                            animating, pending>>]_vars

C16_Witness ==
    /\ cmd.name = "stepForward"
    /\ cmd.pre.direction = Paused
    /\ cmd.pre.cursor = firstBreakPoint
    /\ op.name = "frame"
    /\ clock > MaxTime
    /\ Settled
    /\ cursor > firstBreakPoint

\* Horizon is no constraint: a callback outstanding can always be given a later
\* timestamp, so LaterFrame is enabled exactly when a callback is outstanding.
C16_RoomForLaterFrame == pending > 0 => frameTime < Horizon
====
